---- MODULE Spec2Model ----
(***************************************************************************)
(* Model of voice_cloning_script.py: the filename sanitizer, the CSV line  *)
(* loader, the synthesis dispatcher, the three variant runners and main.   *)
(* A Python str is a sequence of one-character strings.                    *)
(***************************************************************************)
EXTENDS Integers, Sequences, FiniteSets, TLC

VARIABLES
    pc,             \* position of the run / of the function under study
    name,           \* sanitize_filename: argument name
    max_len,        \* sanitize_filename: argument max_len
    san_result,     \* sanitize_filename: returned value
    csv,            \* the file at csv_path: [exists, rows], the header line first
    load_result,    \* load_csv_lines: [kind, rows]
    variant,        \* args.variant
    speaker_exists, \* args.speaker_wav.exists()
    outdir,         \* args.outdir
    language,       \* args.language
    langs_arg,      \* args.langs
    languages,      \* run_advanced: languages
    lines,          \* run_detailed / run_advanced: lines
    i,              \* record loop index
    j,              \* language loop index
    calls,          \* every tts.tts_to_file invocation, in order, failed ones too
    files,          \* waveform files on disk, each with the call that wrote it
    dirs,           \* directories created, below the ones there are at the start
    out,            \* stdout lines
    err,            \* stderr lines
    exit_code,      \* process exit status, -1 while running
    csv_loads,      \* number of load_csv_lines calls
    tts_loads       \* number of init_tts calls

vars == <<pc, name, max_len, san_result, csv, load_result, variant,
          speaker_exists, outdir, language, langs_arg, languages, lines, i, j, calls,
          files, dirs, out, err, exit_code, csv_loads, tts_loads>>

----------------------------------------------------------------------------
(* Characters and strings *)

LowerLetters == {"a","b","c","d","e","f","g","h","i","j","k","l","m",
                 "n","o","p","q","r","s","t","u","v","w","x","y","z"}
UpperLetters == {"A","B","C","D","E","F","G","H","I","J","K","L","M",
                 "N","O","P","Q","R","S","T","U","V","W","X","Y","Z"}
Digits == {"0","1","2","3","4","5","6","7","8","9"}

\* the class [A-Za-z0-9._-]
SafeChars == LowerLetters \cup UpperLetters \cup Digits \cup {".", "_", "-"}

\* A character outside ASCII, and the backquote, which a string literal does
\* not take, is the string "U+" followed by its code point in four or more
\* hexadecimal digits.
HexDigits == <<"0", "1", "2", "3", "4", "5", "6", "7", "8", "9", "A", "B", "C", "D", "E", "F">>

\* n in hexadecimal, in at least w digits
RECURSIVE HexStr(_, _)
HexStr(n, w) ==
    IF n = 0 /\ w <= 0 THEN ""
    ELSE HexStr(n \div 16, w - 1) \o HexDigits[(n % 16) + 1]

\* the character of code point n, for n above 127 and for the backquote
Uni(n) == "U+" \o HexStr(n, 4)

\* the ASCII whitespace characters that have no escape in a string literal,
\* each written as itself: U+000B vertical tab, U+001C to U+001F the file,
\* group, record and unit separators
VT == ""
FS == ""
GS == ""
RS == ""
US == ""

\* whitespace outside ASCII: next line, no-break space, ogham space mark,
\* em space, line separator, ideographic space
NEL         == "U+0085"
NBSP        == "U+00A0"
OGHAM       == "U+1680"
EM_SPACE    == "U+2003"
LINE_SEP    == "U+2028"
IDEOGRAPHIC == "U+3000"

\* the code points above 127 of the characters str.isspace() holds of
WhitespaceCodes ==
    {133, 160, 5760} \cup (8192..8202) \cup {8232, 8233, 8239, 8287, 12288}

\* the characters str.isspace() holds of, which are those that the class \s,
\* str.strip() and str.split() take for whitespace
Whitespace ==
    {" ", "\t", "\n", "\r", "\f", VT, FS, GS, RS, US} \cup {Uni(n) : n \in WhitespaceCodes}

UpperToLower ==
    [c \in UpperLetters |->
        CASE c = "A" -> "a" [] c = "B" -> "b" [] c = "C" -> "c" [] c = "D" -> "d"
          [] c = "E" -> "e" [] c = "F" -> "f" [] c = "G" -> "g" [] c = "H" -> "h"
          [] c = "I" -> "i" [] c = "J" -> "j" [] c = "K" -> "k" [] c = "L" -> "l"
          [] c = "M" -> "m" [] c = "N" -> "n" [] c = "O" -> "o" [] c = "P" -> "p"
          [] c = "Q" -> "q" [] c = "R" -> "r" [] c = "S" -> "s" [] c = "T" -> "t"
          [] c = "U" -> "u" [] c = "V" -> "v" [] c = "W" -> "w" [] c = "X" -> "x"
          [] c = "Y" -> "y" [] c = "Z" -> "z"]

\* The lowercase mapping of str.lower() above ASCII, as Python 3.11 has it
\* (Unicode 14.0): <<first, last, step, offset>> maps every step-th code
\* point from first to last to itself plus offset.  U+0130 and U+212A, whose
\* lowercase reaches into ASCII, and the final sigma are in Lower.
LowerRules ==
    {<<192, 214, 1, 32>>, <<216, 222, 1, 32>>, <<256, 302, 2, 1>>, <<306, 310, 2, 1>>,
     <<313, 327, 2, 1>>, <<330, 374, 2, 1>>, <<376, 376, 1, -121>>, <<377, 381, 2, 1>>,
     <<385, 385, 1, 210>>, <<386, 388, 2, 1>>, <<390, 390, 1, 206>>, <<391, 391, 1, 1>>,
     <<393, 394, 1, 205>>, <<395, 395, 1, 1>>, <<398, 398, 1, 79>>, <<399, 399, 1, 202>>,
     <<400, 400, 1, 203>>, <<401, 401, 1, 1>>, <<403, 403, 1, 205>>, <<404, 404, 1, 207>>,
     <<406, 406, 1, 211>>, <<407, 407, 1, 209>>, <<408, 408, 1, 1>>, <<412, 412, 1, 211>>,
     <<413, 413, 1, 213>>, <<415, 415, 1, 214>>, <<416, 420, 2, 1>>, <<422, 422, 1, 218>>,
     <<423, 423, 1, 1>>, <<425, 425, 1, 218>>, <<428, 428, 1, 1>>, <<430, 430, 1, 218>>,
     <<431, 431, 1, 1>>, <<433, 434, 1, 217>>, <<435, 437, 2, 1>>, <<439, 439, 1, 219>>,
     <<440, 440, 1, 1>>, <<444, 444, 1, 1>>, <<452, 452, 1, 2>>, <<453, 453, 1, 1>>,
     <<455, 455, 1, 2>>, <<456, 456, 1, 1>>, <<458, 458, 1, 2>>, <<459, 475, 2, 1>>,
     <<478, 494, 2, 1>>, <<497, 497, 1, 2>>, <<498, 500, 2, 1>>, <<502, 502, 1, -97>>,
     <<503, 503, 1, -56>>, <<504, 542, 2, 1>>, <<544, 544, 1, -130>>, <<546, 562, 2, 1>>,
     <<570, 570, 1, 10795>>, <<571, 571, 1, 1>>, <<573, 573, 1, -163>>, <<574, 574, 1, 10792>>,
     <<577, 577, 1, 1>>, <<579, 579, 1, -195>>, <<580, 580, 1, 69>>, <<581, 581, 1, 71>>,
     <<582, 590, 2, 1>>, <<880, 882, 2, 1>>, <<886, 886, 1, 1>>, <<895, 895, 1, 116>>,
     <<902, 902, 1, 38>>, <<904, 906, 1, 37>>, <<908, 908, 1, 64>>, <<910, 911, 1, 63>>,
     <<913, 929, 1, 32>>, <<931, 939, 1, 32>>, <<975, 975, 1, 8>>, <<984, 1006, 2, 1>>,
     <<1012, 1012, 1, -60>>, <<1015, 1015, 1, 1>>, <<1017, 1017, 1, -7>>, <<1018, 1018, 1, 1>>,
     <<1021, 1023, 1, -130>>, <<1024, 1039, 1, 80>>, <<1040, 1071, 1, 32>>,
     <<1120, 1152, 2, 1>>, <<1162, 1214, 2, 1>>, <<1216, 1216, 1, 15>>, <<1217, 1229, 2, 1>>,
     <<1232, 1326, 2, 1>>, <<1329, 1366, 1, 48>>, <<4256, 4293, 1, 7264>>,
     <<4295, 4295, 1, 7264>>, <<4301, 4301, 1, 7264>>, <<5024, 5103, 1, 38864>>,
     <<5104, 5109, 1, 8>>, <<7312, 7354, 1, -3008>>, <<7357, 7359, 1, -3008>>,
     <<7680, 7828, 2, 1>>, <<7838, 7838, 1, -7615>>, <<7840, 7934, 2, 1>>,
     <<7944, 7951, 1, -8>>, <<7960, 7965, 1, -8>>, <<7976, 7983, 1, -8>>, <<7992, 7999, 1, -8>>,
     <<8008, 8013, 1, -8>>, <<8025, 8031, 2, -8>>, <<8040, 8047, 1, -8>>, <<8072, 8079, 1, -8>>,
     <<8088, 8095, 1, -8>>, <<8104, 8111, 1, -8>>, <<8120, 8121, 1, -8>>,
     <<8122, 8123, 1, -74>>, <<8124, 8124, 1, -9>>, <<8136, 8139, 1, -86>>,
     <<8140, 8140, 1, -9>>, <<8152, 8153, 1, -8>>, <<8154, 8155, 1, -100>>,
     <<8168, 8169, 1, -8>>, <<8170, 8171, 1, -112>>, <<8172, 8172, 1, -7>>,
     <<8184, 8185, 1, -128>>, <<8186, 8187, 1, -126>>, <<8188, 8188, 1, -9>>,
     <<8486, 8486, 1, -7517>>, <<8491, 8491, 1, -8262>>, <<8498, 8498, 1, 28>>,
     <<8544, 8559, 1, 16>>, <<8579, 8579, 1, 1>>, <<9398, 9423, 1, 26>>,
     <<11264, 11311, 1, 48>>, <<11360, 11360, 1, 1>>, <<11362, 11362, 1, -10743>>,
     <<11363, 11363, 1, -3814>>, <<11364, 11364, 1, -10727>>, <<11367, 11371, 2, 1>>,
     <<11373, 11373, 1, -10780>>, <<11374, 11374, 1, -10749>>, <<11375, 11375, 1, -10783>>,
     <<11376, 11376, 1, -10782>>, <<11378, 11378, 1, 1>>, <<11381, 11381, 1, 1>>,
     <<11390, 11391, 1, -10815>>, <<11392, 11490, 2, 1>>, <<11499, 11501, 2, 1>>,
     <<11506, 11506, 1, 1>>, <<42560, 42604, 2, 1>>, <<42624, 42650, 2, 1>>,
     <<42786, 42798, 2, 1>>, <<42802, 42862, 2, 1>>, <<42873, 42875, 2, 1>>,
     <<42877, 42877, 1, -35332>>, <<42878, 42886, 2, 1>>, <<42891, 42891, 1, 1>>,
     <<42893, 42893, 1, -42280>>, <<42896, 42898, 2, 1>>, <<42902, 42920, 2, 1>>,
     <<42922, 42922, 1, -42308>>, <<42923, 42923, 1, -42319>>, <<42924, 42924, 1, -42315>>,
     <<42925, 42925, 1, -42305>>, <<42926, 42926, 1, -42308>>, <<42928, 42928, 1, -42258>>,
     <<42929, 42929, 1, -42282>>, <<42930, 42930, 1, -42261>>, <<42931, 42931, 1, 928>>,
     <<42932, 42946, 2, 1>>, <<42948, 42948, 1, -48>>, <<42949, 42949, 1, -42307>>,
     <<42950, 42950, 1, -35384>>, <<42951, 42953, 2, 1>>, <<42960, 42960, 1, 1>>,
     <<42966, 42968, 2, 1>>, <<42997, 42997, 1, 1>>, <<65313, 65338, 1, 32>>,
     <<66560, 66599, 1, 40>>, <<66736, 66771, 1, 40>>, <<66928, 66964, 2, 39>>,
     <<66929, 66937, 2, 39>>, <<66941, 66953, 2, 39>>, <<66957, 66961, 2, 39>>,
     <<66965, 66965, 1, 39>>, <<68736, 68786, 1, 64>>, <<71840, 71871, 1, 32>>,
     <<93760, 93791, 1, 32>>, <<125184, 125217, 1, 34>>}

\* The characters that are cased and not case-ignorable, above ASCII, as
\* ranges <<first, last>> of code points.
CasedRanges ==
    {<<170, 170>>, <<181, 181>>, <<186, 186>>, <<192, 214>>, <<216, 246>>, <<248, 442>>,
     <<444, 447>>, <<452, 659>>, <<661, 687>>, <<880, 883>>, <<886, 887>>, <<891, 893>>,
     <<895, 895>>, <<902, 902>>, <<904, 906>>, <<908, 908>>, <<910, 929>>, <<931, 1013>>,
     <<1015, 1153>>, <<1162, 1327>>, <<1329, 1366>>, <<1376, 1416>>, <<4256, 4293>>,
     <<4295, 4295>>, <<4301, 4301>>, <<4304, 4346>>, <<4349, 4351>>, <<5024, 5109>>,
     <<5112, 5117>>, <<7296, 7304>>, <<7312, 7354>>, <<7357, 7359>>, <<7424, 7467>>,
     <<7531, 7543>>, <<7545, 7578>>, <<7680, 7957>>, <<7960, 7965>>, <<7968, 8005>>,
     <<8008, 8013>>, <<8016, 8023>>, <<8025, 8025>>, <<8027, 8027>>, <<8029, 8029>>,
     <<8031, 8061>>, <<8064, 8116>>, <<8118, 8124>>, <<8126, 8126>>, <<8130, 8132>>,
     <<8134, 8140>>, <<8144, 8147>>, <<8150, 8155>>, <<8160, 8172>>, <<8178, 8180>>,
     <<8182, 8188>>, <<8450, 8450>>, <<8455, 8455>>, <<8458, 8467>>, <<8469, 8469>>,
     <<8473, 8477>>, <<8484, 8484>>, <<8486, 8486>>, <<8488, 8488>>, <<8490, 8493>>,
     <<8495, 8500>>, <<8505, 8505>>, <<8508, 8511>>, <<8517, 8521>>, <<8526, 8526>>,
     <<8544, 8575>>, <<8579, 8580>>, <<9398, 9449>>, <<11264, 11387>>, <<11390, 11492>>,
     <<11499, 11502>>, <<11506, 11507>>, <<11520, 11557>>, <<11559, 11559>>, <<11565, 11565>>,
     <<42560, 42605>>, <<42624, 42651>>, <<42786, 42863>>, <<42865, 42887>>, <<42891, 42894>>,
     <<42896, 42954>>, <<42960, 42961>>, <<42963, 42963>>, <<42965, 42969>>, <<42997, 42998>>,
     <<43002, 43002>>, <<43824, 43866>>, <<43872, 43880>>, <<43888, 43967>>, <<64256, 64262>>,
     <<64275, 64279>>, <<65313, 65338>>, <<65345, 65370>>, <<66560, 66639>>, <<66736, 66771>>,
     <<66776, 66811>>, <<66928, 66938>>, <<66940, 66954>>, <<66956, 66962>>, <<66964, 66965>>,
     <<66967, 66977>>, <<66979, 66993>>, <<66995, 67001>>, <<67003, 67004>>, <<68736, 68786>>,
     <<68800, 68850>>, <<71840, 71903>>, <<93760, 93823>>, <<119808, 119892>>,
     <<119894, 119964>>, <<119966, 119967>>, <<119970, 119970>>, <<119973, 119974>>,
     <<119977, 119980>>, <<119982, 119993>>, <<119995, 119995>>, <<119997, 120003>>,
     <<120005, 120069>>, <<120071, 120074>>, <<120077, 120084>>, <<120086, 120092>>,
     <<120094, 120121>>, <<120123, 120126>>, <<120128, 120132>>, <<120134, 120134>>,
     <<120138, 120144>>, <<120146, 120485>>, <<120488, 120512>>, <<120514, 120538>>,
     <<120540, 120570>>, <<120572, 120596>>, <<120598, 120628>>, <<120630, 120654>>,
     <<120656, 120686>>, <<120688, 120712>>, <<120714, 120744>>, <<120746, 120770>>,
     <<120772, 120779>>, <<122624, 122633>>, <<122635, 122654>>, <<125184, 125251>>,
     <<127280, 127305>>, <<127312, 127337>>, <<127344, 127369>>}

\* The case-ignorable characters above ASCII, as ranges of code points.
CaseIgnorableRanges ==
    {<<168, 168>>, <<173, 173>>, <<175, 175>>, <<180, 180>>, <<183, 184>>, <<688, 879>>,
     <<884, 885>>, <<890, 890>>, <<900, 901>>, <<903, 903>>, <<1155, 1161>>, <<1369, 1369>>,
     <<1375, 1375>>, <<1425, 1469>>, <<1471, 1471>>, <<1473, 1474>>, <<1476, 1477>>,
     <<1479, 1479>>, <<1524, 1524>>, <<1536, 1541>>, <<1552, 1562>>, <<1564, 1564>>,
     <<1600, 1600>>, <<1611, 1631>>, <<1648, 1648>>, <<1750, 1757>>, <<1759, 1768>>,
     <<1770, 1773>>, <<1807, 1807>>, <<1809, 1809>>, <<1840, 1866>>, <<1958, 1968>>,
     <<2027, 2037>>, <<2042, 2042>>, <<2045, 2045>>, <<2070, 2093>>, <<2137, 2139>>,
     <<2184, 2184>>, <<2192, 2193>>, <<2200, 2207>>, <<2249, 2306>>, <<2362, 2362>>,
     <<2364, 2364>>, <<2369, 2376>>, <<2381, 2381>>, <<2385, 2391>>, <<2402, 2403>>,
     <<2417, 2417>>, <<2433, 2433>>, <<2492, 2492>>, <<2497, 2500>>, <<2509, 2509>>,
     <<2530, 2531>>, <<2558, 2558>>, <<2561, 2562>>, <<2620, 2620>>, <<2625, 2626>>,
     <<2631, 2632>>, <<2635, 2637>>, <<2641, 2641>>, <<2672, 2673>>, <<2677, 2677>>,
     <<2689, 2690>>, <<2748, 2748>>, <<2753, 2757>>, <<2759, 2760>>, <<2765, 2765>>,
     <<2786, 2787>>, <<2810, 2815>>, <<2817, 2817>>, <<2876, 2876>>, <<2879, 2879>>,
     <<2881, 2884>>, <<2893, 2893>>, <<2901, 2902>>, <<2914, 2915>>, <<2946, 2946>>,
     <<3008, 3008>>, <<3021, 3021>>, <<3072, 3072>>, <<3076, 3076>>, <<3132, 3132>>,
     <<3134, 3136>>, <<3142, 3144>>, <<3146, 3149>>, <<3157, 3158>>, <<3170, 3171>>,
     <<3201, 3201>>, <<3260, 3260>>, <<3263, 3263>>, <<3270, 3270>>, <<3276, 3277>>,
     <<3298, 3299>>, <<3328, 3329>>, <<3387, 3388>>, <<3393, 3396>>, <<3405, 3405>>,
     <<3426, 3427>>, <<3457, 3457>>, <<3530, 3530>>, <<3538, 3540>>, <<3542, 3542>>,
     <<3633, 3633>>, <<3636, 3642>>, <<3654, 3662>>, <<3761, 3761>>, <<3764, 3772>>,
     <<3782, 3782>>, <<3784, 3789>>, <<3864, 3865>>, <<3893, 3893>>, <<3895, 3895>>,
     <<3897, 3897>>, <<3953, 3966>>, <<3968, 3972>>, <<3974, 3975>>, <<3981, 3991>>,
     <<3993, 4028>>, <<4038, 4038>>, <<4141, 4144>>, <<4146, 4151>>, <<4153, 4154>>,
     <<4157, 4158>>, <<4184, 4185>>, <<4190, 4192>>, <<4209, 4212>>, <<4226, 4226>>,
     <<4229, 4230>>, <<4237, 4237>>, <<4253, 4253>>, <<4348, 4348>>, <<4957, 4959>>,
     <<5906, 5908>>, <<5938, 5939>>, <<5970, 5971>>, <<6002, 6003>>, <<6068, 6069>>,
     <<6071, 6077>>, <<6086, 6086>>, <<6089, 6099>>, <<6103, 6103>>, <<6109, 6109>>,
     <<6155, 6159>>, <<6211, 6211>>, <<6277, 6278>>, <<6313, 6313>>, <<6432, 6434>>,
     <<6439, 6440>>, <<6450, 6450>>, <<6457, 6459>>, <<6679, 6680>>, <<6683, 6683>>,
     <<6742, 6742>>, <<6744, 6750>>, <<6752, 6752>>, <<6754, 6754>>, <<6757, 6764>>,
     <<6771, 6780>>, <<6783, 6783>>, <<6823, 6823>>, <<6832, 6862>>, <<6912, 6915>>,
     <<6964, 6964>>, <<6966, 6970>>, <<6972, 6972>>, <<6978, 6978>>, <<7019, 7027>>,
     <<7040, 7041>>, <<7074, 7077>>, <<7080, 7081>>, <<7083, 7085>>, <<7142, 7142>>,
     <<7144, 7145>>, <<7149, 7149>>, <<7151, 7153>>, <<7212, 7219>>, <<7222, 7223>>,
     <<7288, 7293>>, <<7376, 7378>>, <<7380, 7392>>, <<7394, 7400>>, <<7405, 7405>>,
     <<7412, 7412>>, <<7416, 7417>>, <<7468, 7530>>, <<7544, 7544>>, <<7579, 7679>>,
     <<8125, 8125>>, <<8127, 8129>>, <<8141, 8143>>, <<8157, 8159>>, <<8173, 8175>>,
     <<8189, 8190>>, <<8203, 8207>>, <<8216, 8217>>, <<8228, 8228>>, <<8231, 8231>>,
     <<8234, 8238>>, <<8288, 8292>>, <<8294, 8303>>, <<8305, 8305>>, <<8319, 8319>>,
     <<8336, 8348>>, <<8400, 8432>>, <<11388, 11389>>, <<11503, 11505>>, <<11631, 11631>>,
     <<11647, 11647>>, <<11744, 11775>>, <<11823, 11823>>, <<12293, 12293>>, <<12330, 12333>>,
     <<12337, 12341>>, <<12347, 12347>>, <<12441, 12446>>, <<12540, 12542>>, <<40981, 40981>>,
     <<42232, 42237>>, <<42508, 42508>>, <<42607, 42610>>, <<42612, 42621>>, <<42623, 42623>>,
     <<42652, 42655>>, <<42736, 42737>>, <<42752, 42785>>, <<42864, 42864>>, <<42888, 42890>>,
     <<42994, 42996>>, <<43000, 43001>>, <<43010, 43010>>, <<43014, 43014>>, <<43019, 43019>>,
     <<43045, 43046>>, <<43052, 43052>>, <<43204, 43205>>, <<43232, 43249>>, <<43263, 43263>>,
     <<43302, 43309>>, <<43335, 43345>>, <<43392, 43394>>, <<43443, 43443>>, <<43446, 43449>>,
     <<43452, 43453>>, <<43471, 43471>>, <<43493, 43494>>, <<43561, 43566>>, <<43569, 43570>>,
     <<43573, 43574>>, <<43587, 43587>>, <<43596, 43596>>, <<43632, 43632>>, <<43644, 43644>>,
     <<43696, 43696>>, <<43698, 43700>>, <<43703, 43704>>, <<43710, 43711>>, <<43713, 43713>>,
     <<43741, 43741>>, <<43756, 43757>>, <<43763, 43764>>, <<43766, 43766>>, <<43867, 43871>>,
     <<43881, 43883>>, <<44005, 44005>>, <<44008, 44008>>, <<44013, 44013>>, <<64286, 64286>>,
     <<64434, 64450>>, <<65024, 65039>>, <<65043, 65043>>, <<65056, 65071>>, <<65106, 65106>>,
     <<65109, 65109>>, <<65279, 65279>>, <<65287, 65287>>, <<65294, 65294>>, <<65306, 65306>>,
     <<65342, 65342>>, <<65344, 65344>>, <<65392, 65392>>, <<65438, 65439>>, <<65507, 65507>>,
     <<65529, 65531>>, <<66045, 66045>>, <<66272, 66272>>, <<66422, 66426>>, <<67456, 67461>>,
     <<67463, 67504>>, <<67506, 67514>>, <<68097, 68099>>, <<68101, 68102>>, <<68108, 68111>>,
     <<68152, 68154>>, <<68159, 68159>>, <<68325, 68326>>, <<68900, 68903>>, <<69291, 69292>>,
     <<69446, 69456>>, <<69506, 69509>>, <<69633, 69633>>, <<69688, 69702>>, <<69744, 69744>>,
     <<69747, 69748>>, <<69759, 69761>>, <<69811, 69814>>, <<69817, 69818>>, <<69821, 69821>>,
     <<69826, 69826>>, <<69837, 69837>>, <<69888, 69890>>, <<69927, 69931>>, <<69933, 69940>>,
     <<70003, 70003>>, <<70016, 70017>>, <<70070, 70078>>, <<70089, 70092>>, <<70095, 70095>>,
     <<70191, 70193>>, <<70196, 70196>>, <<70198, 70199>>, <<70206, 70206>>, <<70367, 70367>>,
     <<70371, 70378>>, <<70400, 70401>>, <<70459, 70460>>, <<70464, 70464>>, <<70502, 70508>>,
     <<70512, 70516>>, <<70712, 70719>>, <<70722, 70724>>, <<70726, 70726>>, <<70750, 70750>>,
     <<70835, 70840>>, <<70842, 70842>>, <<70847, 70848>>, <<70850, 70851>>, <<71090, 71093>>,
     <<71100, 71101>>, <<71103, 71104>>, <<71132, 71133>>, <<71219, 71226>>, <<71229, 71229>>,
     <<71231, 71232>>, <<71339, 71339>>, <<71341, 71341>>, <<71344, 71349>>, <<71351, 71351>>,
     <<71453, 71455>>, <<71458, 71461>>, <<71463, 71467>>, <<71727, 71735>>, <<71737, 71738>>,
     <<71995, 71996>>, <<71998, 71998>>, <<72003, 72003>>, <<72148, 72151>>, <<72154, 72155>>,
     <<72160, 72160>>, <<72193, 72202>>, <<72243, 72248>>, <<72251, 72254>>, <<72263, 72263>>,
     <<72273, 72278>>, <<72281, 72283>>, <<72330, 72342>>, <<72344, 72345>>, <<72752, 72758>>,
     <<72760, 72765>>, <<72767, 72767>>, <<72850, 72871>>, <<72874, 72880>>, <<72882, 72883>>,
     <<72885, 72886>>, <<73009, 73014>>, <<73018, 73018>>, <<73020, 73021>>, <<73023, 73029>>,
     <<73031, 73031>>, <<73104, 73105>>, <<73109, 73109>>, <<73111, 73111>>, <<73459, 73460>>,
     <<78896, 78904>>, <<92912, 92916>>, <<92976, 92982>>, <<92992, 92995>>, <<94031, 94031>>,
     <<94095, 94111>>, <<94176, 94177>>, <<94179, 94180>>, <<110576, 110579>>,
     <<110581, 110587>>, <<110589, 110590>>, <<113821, 113822>>, <<113824, 113827>>,
     <<118528, 118573>>, <<118576, 118598>>, <<119143, 119145>>, <<119155, 119170>>,
     <<119173, 119179>>, <<119210, 119213>>, <<119362, 119364>>, <<121344, 121398>>,
     <<121403, 121452>>, <<121461, 121461>>, <<121476, 121476>>, <<121499, 121503>>,
     <<121505, 121519>>, <<122880, 122886>>, <<122888, 122904>>, <<122907, 122913>>,
     <<122915, 122916>>, <<122918, 122922>>, <<123184, 123197>>, <<123566, 123566>>,
     <<123628, 123631>>, <<125136, 125142>>, <<125252, 125259>>, <<127995, 127999>>,
     <<917505, 917505>>, <<917536, 917631>>, <<917760, 917999>>}

\* the code points the rule r maps
RuleCodes(r) == {n \in r[1]..r[2] : (n - r[1]) % r[3] = 0}

\* the pairs <<character, its lowercase>> of the rules
LowerPairs == UNION {{<<Uni(n), Uni(n + r[4])>> : n \in RuleCodes(r)} : r \in LowerRules}

CasedLetters ==
    UpperLetters \cup LowerLetters \cup UNION {{Uni(n) : n \in r[1]..r[2]} : r \in CasedRanges}

CaseIgnorable ==
    {"'", ".", ":", "^", Uni(96)} \cup UNION {{Uni(n) : n \in r[1]..r[2]} : r \in CaseIgnorableRanges}

\* the largest and the smallest element of a set of integers
MaxOf(S) == CHOOSE m \in S : \A q \in S : q <= m
MinOf(S) == CHOOSE m \in S : \A q \in S : m <= q

\* the capital sigma at s[k] ends a word: the nearest character before it
\* that is not skipped is cased, and the nearest such character after it, if
\* any, is not; skipped and cased are sets of positions of s
SigmaEndsWord(k, n, skipped, cased) ==
    /\ (1..(k - 1)) \ skipped # {}
    /\ MaxOf((1..(k - 1)) \ skipped) \in cased
    /\ \/ ((k + 1)..n) \ skipped = {}
       \/ MinOf(((k + 1)..n) \ skipped) \notin cased

\* Final_Sigma of the Unicode case mapping, with the case-ignorable
\* characters skipped
FinalSigma(s, k) ==
    SigmaEndsWord(k, Len(s),
                  {m \in 1..Len(s) : s[m] \in CaseIgnorable},
                  {m \in 1..Len(s) : s[m] \in CasedLetters})

\* the one element of S, or d when S is empty
OneOr(S, d) == IF S = {} THEN d ELSE CHOOSE x \in S : TRUE

\* the lowercase of the character s[k]: one character, two for U+0130
LowerAt(s, k) ==
    IF s[k] \in UpperLetters THEN <<UpperToLower[s[k]]>>
    ELSE IF s[k] \in LowerLetters THEN <<s[k]>>
    ELSE IF s[k] = "U+0130" THEN <<"i", "U+0307">>
    ELSE IF s[k] = "U+212A" THEN <<"k">>
    ELSE IF s[k] = "U+03A3" THEN <<IF FinalSigma(s, k) THEN "U+03C2" ELSE "U+03C3">>
    ELSE <<OneOr({p[2] : p \in {q \in LowerPairs : q[1] = s[k]}}, s[k])>>

RECURSIVE LowerFrom(_, _)
LowerFrom(s, k) == IF k > Len(s) THEN <<>> ELSE LowerAt(s, k) \o LowerFrom(s, k + 1)

\* str.lower()
Lower(s) == LowerFrom(s, 1)

\* all sequences over S of length at most n
SeqsUpTo(S, n) == UNION {[1..k -> S] : k \in 0..n}

\* the character c repeated n times
Rep(c, n) == [k \in 1..n |-> c]

\* the n-th smallest element of the set S of integers
Nth(S, n) == CHOOSE k \in S : Cardinality({m \in S : m <= k}) = n

\* Python s[:n]
Slice(s, n) ==
    IF n >= 0
    THEN SubSeq(s, 1, IF n < Len(s) THEN n ELSE Len(s))
    ELSE SubSeq(s, 1, IF Len(s) + n > 0 THEN Len(s) + n ELSE 0)

\* str.strip(): drop the leading and the trailing whitespace
Strip(s) ==
    LET solid == {k \in 1..Len(s) : s[k] \notin Whitespace}
    IN  IF solid = {} THEN <<>>
        ELSE SubSeq(s, CHOOSE k \in solid : \A m \in solid : k <= m,
                       CHOOSE k \in solid : \A m \in solid : k >= m)

\* re.sub(r"\s+", "_", s): every maximal whitespace run becomes one underscore
CollapseWs(s) ==
    LET marked == [k \in 1..Len(s) |->
                      IF s[k] \notin Whitespace THEN s[k]
                      ELSE IF k > 1 /\ s[k - 1] \in Whitespace THEN "" ELSE "_"]
        Kept(c) == c # ""
    IN  SelectSeq(marked, Kept)

\* re.sub(r"[^A-Za-z0-9._-]", "", s)
StripUnsafe(s) ==
    LET Safe(c) == c \in SafeChars
    IN  SelectSeq(s, Safe)

S_utt == <<"u", "t", "t">>

DefaultMaxLen == 100

\* a sanitizer that forgets the truncation to max_len
sanitize_filename_notrunc(n, m) ==
    LET cleaned == StripUnsafe(CollapseWs(Strip(n)))
    IN  IF cleaned # <<>> THEN cleaned ELSE S_utt

sanitize_filename(n, m) ==
    LET cleaned == StripUnsafe(CollapseWs(Strip(n)))
    IN  IF cleaned # <<>> THEN Slice(cleaned, m) ELSE S_utt

----------------------------------------------------------------------------
(* CSV line loader *)

\* None, distinct from every str
NoneVal == <<"None">>

S_id        == <<"i", "d">>
S_Id        == <<"I", "d">>
S_text      == <<"t", "e", "x", "t">>
S_Text      == <<"T", "e", "x", "t">>
S_sentence  == <<"s", "e", "n", "t", "e", "n", "c", "e">>
S_utterance == <<"u", "t", "t", "e", "r", "a", "n", "c", "e">>
S_message   == <<"m", "e", "s", "s", "a", "g", "e">>
S_foo       == <<"f", "o", "o">>

\* a candidate list with the first two priorities exchanged

candidates == <<S_text, S_sentence, S_utterance, S_message>>

DigitChar(d) ==
    CASE d = 0 -> "0" [] d = 1 -> "1" [] d = 2 -> "2" [] d = 3 -> "3" [] d = 4 -> "4"
      [] d = 5 -> "5" [] d = 6 -> "6" [] d = 7 -> "7" [] d = 8 -> "8" [] d = 9 -> "9"

\* str(n) for n >= 0
RECURSIVE IntToStr(_)
IntToStr(n) == IF n < 10 THEN <<DigitChar(n)>> ELSE IntToStr(n \div 10) \o <<DigitChar(n % 10)>>

\* the elements of s that satisfy membership in S, in order
RECURSIVE SelectIn(_, _)
SelectIn(s, S) ==
    IF s = <<>> THEN <<>>
    ELSE (IF Head(s) \in S THEN <<Head(s)>> ELSE <<>>) \o SelectIn(Tail(s), S)

Range(s) == {s[k] : k \in 1..Len(s)}

\* the keys of dict(zip(fieldnames, row)): first occurrences, in order
RECURSIVE DictKeys(_)
DictKeys(fieldnames) ==
    IF fieldnames = <<>> THEN <<>>
    ELSE LET init == DictKeys(SubSeq(fieldnames, 1, Len(fieldnames) - 1))
             last == fieldnames[Len(fieldnames)]
         IN  IF last \in Range(init) THEN init ELSE Append(init, last)

\* csv.DictReader.__next__ on one non-blank row: a later column of the same
\* name overwrites an earlier one, missing cells are None (restval), surplus
\* cells are collected under the key None (restkey)
RowDict(fieldnames, row) ==
    LET lf == Len(fieldnames)
        lr == Len(row)
        LastPos(k) == CHOOSE p \in 1..lf :
                          fieldnames[p] = k /\ \A q \in (p + 1)..lf : fieldnames[q] # k
    IN  [keys |-> IF lf < lr THEN Append(DictKeys(fieldnames), NoneVal)
                  ELSE DictKeys(fieldnames),
         val  |-> [k \in Range(fieldnames) |->
                      IF LastPos(k) <= lr THEN row[LastPos(k)] ELSE NoneVal]]

\* row.get(key)
DictGet(d, key) == IF key \in DOMAIN d.val THEN d.val[key] ELSE NoneVal

\* x or y, for x a str or None
OrElse(x, y) == IF x = NoneVal \/ x = <<>> THEN y ELSE x

\* the rows the DictReader yields: blank lines are skipped
DataRows(rows) == SelectIn(Tail(rows), {r \in Range(Tail(rows)) : r # <<>>})

\* next((c for c in candidates if c in fields_lower), None)
TextColLower(fieldnames) ==
    LET fields_lower == {Lower(c) : c \in Range(fieldnames)}
        hits == {p \in 1..Len(candidates) : candidates[p] \in fields_lower}
    IN  IF hits = {} THEN NoneVal
        ELSE candidates[CHOOSE p \in hits : \A q \in hits : p <= q]

\* the key the loop body reads the text from
TextKey(fieldnames, d) ==
    LET text_col_lower == TextColLower(fieldnames)
    IN  IF text_col_lower # NoneVal
        THEN LET hits == {p \in 1..Len(d.keys) : Lower(d.keys[p]) = text_col_lower}
             IN  d.keys[CHOOSE p \in hits : \A q \in hits : p <= q]
        ELSE fieldnames[1]

\* a loop that numbers only the rows it keeps
RECURSIVE LoadLoop_renumber(_, _, _)
LoadLoop_renumber(fieldnames, data, idx) ==
    IF data = <<>> THEN <<>>
    ELSE LET d    == RowDict(fieldnames, Head(data))
             text == Strip(OrElse(DictGet(d, TextKey(fieldnames, d)), <<>>))
             rid  == OrElse(DictGet(d, S_id), IntToStr(idx))
         IN  IF text = <<>> THEN LoadLoop_renumber(fieldnames, Tail(data), idx)
             ELSE <<[id |-> rid, text |-> text]>>
                  \o LoadLoop_renumber(fieldnames, Tail(data), idx + 1)

\* a loop that tests the text for emptiness before trimming it
RECURSIVE LoadLoop_latestrip(_, _, _)
LoadLoop_latestrip(fieldnames, data, idx) ==
    IF data = <<>> THEN <<>>
    ELSE LET d    == RowDict(fieldnames, Head(data))
             text == OrElse(DictGet(d, TextKey(fieldnames, d)), <<>>)
             rid  == OrElse(DictGet(d, S_id), IntToStr(idx))
             rest == LoadLoop_latestrip(fieldnames, Tail(data), idx + 1)
         IN  IF text = <<>> THEN rest ELSE <<[id |-> rid, text |-> Strip(text)]>> \o rest

\* the body of the for loop over the reader, for the data rows left
RECURSIVE LoadLoop(_, _, _)
LoadLoop(fieldnames, data, idx) ==
    IF data = <<>> THEN <<>>
    ELSE LET d    == RowDict(fieldnames, Head(data))
             text == Strip(OrElse(DictGet(d, TextKey(fieldnames, d)), <<>>))
             rid  == OrElse(DictGet(d, S_id), IntToStr(idx))
             rest == LoadLoop(fieldnames, Tail(data), idx + 1)
         IN  IF text = <<>> THEN rest ELSE <<[id |-> rid, text |-> text]>> \o rest

\* a loader without the final emptiness check
load_csv_lines_nocheck(f) ==
    IF ~f.exists THEN [kind |-> "FileNotFoundError", rows |-> <<>>]
    ELSE IF f.rows = <<>> \/ Head(f.rows) = <<>>
         THEN [kind |-> "ValueError", rows |-> <<>>]
    ELSE [kind |-> "ok", rows |-> LoadLoop(Head(f.rows), DataRows(f.rows), 1)]

load_csv_lines(f) ==
    IF ~f.exists THEN [kind |-> "FileNotFoundError", rows |-> <<>>]
    ELSE IF f.rows = <<>> \/ Head(f.rows) = <<>>
         THEN [kind |-> "ValueError", rows |-> <<>>]
    ELSE LET rows == LoadLoop(Head(f.rows), DataRows(f.rows), 1)
         IN  IF rows = <<>> THEN [kind |-> "ValueError", rows |-> <<>>]
             ELSE [kind |-> "ok", rows |-> rows]

----------------------------------------------------------------------------
(* Synthesis dispatcher and variant runners *)

S_outputs    == <<"o", "u", "t", "p", "u", "t", "s">>
S_simple_wav == <<"s", "i", "m", "p", "l", "e", "_", "d", "e", "m", "o", ".", "w", "a", "v">>
S_wav        == <<".", "w", "a", "v">>
S_en         == <<"e", "n">>
S_fr         == <<"f", "r", "-", "f", "r">>
S_pt         == <<"p", "t", "-", "b", "r">>
S_dotdot     == <<".", ".">>
S_sample_voice_wav ==
    <<"s", "a", "m", "p", "l", "e", "_", "v", "o", "i", "c", "e", ".", "w", "a", "v">>
S_input_csv  == <<"i", "n", "p", "u", "t", ".", "c", "s", "v">>

\* DEFAULT_OUTPUT_DIR as a path: the sequence of its components
DEFAULT_OUTPUT_DIR == <<S_outputs>>

\* the default of --speaker-wav and of --input-csv, as paths
DEFAULT_SPEAKER_WAV == <<S_sample_voice_wav>>
DEFAULT_INPUT_CSV   == <<S_input_csv>>

DEFAULT_LANGUAGE == S_en

\* "en,fr-fr,pt-br"
DEFAULT_ADVANCED_LANGS == S_en \o <<",">> \o S_fr \o <<",">> \o S_pt

\* the sentence run_simple renders
SimpleSentence ==
    <<"H", "e", "l", "l", "o", ",", " ", "t", "h", "i", "s", " ", "i", "s",
      " ", "a", " ", "q", "u", "i", "c", "k", " ", "v", "o", "i", "c", "e",
      " ", "c", "l", "o", "n", "i", "n", "g", " ", "t", "e", "s", "t", ".">>

\* str.split(): the maximal runs of non-whitespace characters
Words(s) ==
    LET starts == {k \in 1..Len(s) :
                      s[k] \notin Whitespace /\ (k = 1 \/ s[k - 1] \in Whitespace)}
        EndOf(a) == CHOOSE b \in a..Len(s) :
                        /\ \A m \in a..b : s[m] \notin Whitespace
                        /\ (b = Len(s) \/ s[b + 1] \in Whitespace)
    IN  [n \in 1..Cardinality(starts) |->
            LET a == Nth(starts, n) IN SubSeq(s, a, EndOf(a))]

\* sep.join(ws)
RECURSIVE Join(_, _)
Join(ws, sep) ==
    IF ws = <<>> THEN <<>>
    ELSE IF Len(ws) = 1 THEN ws[1]
    ELSE ws[1] \o sep \o Join(Tail(ws), sep)

\* s.split(sep) for a one-character sep: the pieces between the
\* separators, empty pieces included
SplitOn(s, sep) ==
    LET seps == {k \in 1..Len(s) : s[k] = sep}
        Cut(n) == IF n = 0 THEN 0
                  ELSE IF n > Cardinality(seps) THEN Len(s) + 1
                  ELSE Nth(seps, n)
    IN  [n \in 1..(Cardinality(seps) + 1) |-> SubSeq(s, Cut(n - 1) + 1, Cut(n) - 1)]

\* s.split(",")
SplitComma(s) == SplitOn(s, ",")

\* the components pathlib finds in s: the pieces between the slashes that
\* are neither empty nor "."
PathParts(s) ==
    LET Named(c) == c # <<>> /\ c # <<".">>
    IN  SelectSeq(SplitOn(s, "/"), Named)

\* the root of an absolute s: "//" for exactly two leading slashes, else "/"
PathRoot(s) ==
    IF Len(s) >= 2 /\ s[2] = "/" /\ (Len(s) = 2 \/ s[3] # "/")
    THEN <<"/", "/">> ELSE <<"/">>

\* path / s: a path is the sequence of its components, an absolute s
\* replaces the path
PathJoin(path, s) ==
    IF s # <<>> /\ s[1] = "/" THEN <<PathRoot(s)>> \o PathParts(s)
    ELSE path \o PathParts(s)

\* a parser that keeps the empty items
ParseLangs_nofilter(s) ==
    LET pieces == SplitComma(s)
    IN  [n \in 1..Len(pieces) |-> Strip(pieces[n])]

\* [l.strip() for l in args.langs.split(",") if l.strip()]
ParseLangs(s) ==
    LET pieces == SplitComma(s)
        stripped == [n \in 1..Len(pieces) |-> Strip(pieces[n])]
        NonEmpty(l) == l # <<>>
    IN  SelectSeq(stripped, NonEmpty)

\* f"{n:03d}"
Fmt03(n) ==
    LET d == IntToStr(n)
    IN  Rep("0", 3 - Len(d)) \o d

\* sanitize_filename(" ".join(text.split()[:6]))
Slug(text) == sanitize_filename(Join(Slice(Words(text), 6), <<" ">>), DefaultMaxLen)

\* the file name run_detailed gives the n-th record
detailed_fname(n, row) ==
    LET rid  == sanitize_filename(row.id, DefaultMaxLen)
        slug == Slug(row.text)
    IN  IF slug # <<>> THEN Fmt03(n) \o <<"_">> \o rid \o <<"_">> \o slug \o S_wav
        ELSE Fmt03(n) \o <<"_">> \o rid \o S_wav

\* the file name run_advanced gives the n-th record in language lang
advanced_fname(n, row, lang) ==
    LET rid        == sanitize_filename(row.id, DefaultMaxLen)
        short_slug == Slug(row.text)
    IN  Fmt03(n) \o <<"_">> \o rid \o <<"_">>
        \o (IF short_slug # <<>> THEN short_slug ELSE S_utt)
        \o <<".">> \o lang \o S_wav

\* the engine call synth_to_file makes: the language is passed only when it
\* is not empty
EngineCall(text, out_path, lang) ==
    [text |-> text, path |-> out_path,
     language |-> IF lang # <<>> THEN lang ELSE NoneVal]

IsRoot(c) == c = <<"/">> \/ c = <<"/", "/">>

\* path.parent
Parent(path) ==
    IF Len(path) = 1 /\ IsRoot(path[1]) THEN path ELSE SubSeq(path, 1, Len(path) - 1)

\* The entry of the file system that a path names, taken from the working
\* directory and without symbolic links: ".." leads to the directory above,
\* from the root to the root and from the working directory out of it; two
\* leading slashes are the root.
RECURSIVE Resolve(_)
Resolve(path) ==
    IF path = <<>> THEN <<>>
    ELSE LET at == Resolve(SubSeq(path, 1, Len(path) - 1))
             c  == path[Len(path)]
         IN  IF IsRoot(c) THEN <<<<"/">>>>
             ELSE IF c # S_dotdot THEN Append(at, c)
             ELSE IF at = <<>> \/ at[Len(at)] = S_dotdot THEN Append(at, c)
             ELSE IF IsRoot(at[Len(at)]) THEN at
             ELSE SubSeq(at, 1, Len(at) - 1)

\* at is a directory: one of ds, or the working directory, or a directory
\* above it, or the root
IsDir(ds, at) ==
    \/ at \in ds
    \/ \A k \in 1..Len(at) : at[k] = S_dotdot
    \/ at = <<<<"/">>>>

\* mkdir of the prefixes of path from the q-th on, the shorter first; made
\* tells that a directory was missing on the way.  A prefix that is a file
\* raises: NotADirectoryError from the first os.mkdir, which meets the file
\* below the last component, FileExistsError from an os.mkdir of that prefix
\* itself.
RECURSIVE MkdirFrom(_, _, _, _, _)
MkdirFrom(ds, fs, path, q, made) ==
    IF q > Len(path) THEN [dirs |-> ds, raises |-> "none"]
    ELSE LET at == Resolve(SubSeq(path, 1, q))
         IN  IF IsDir(ds, at) THEN MkdirFrom(ds, fs, path, q + 1, made)
             ELSE IF at \in fs
             THEN [dirs |-> ds,
                   raises |-> IF q = Len(path) \/ made THEN "FileExistsError"
                              ELSE "NotADirectoryError"]
             ELSE MkdirFrom(ds \cup {at}, fs, path, q + 1, TRUE)

\* path.mkdir(parents=True, exist_ok=True) in a file system with the
\* directories ds and the files fs: the directories there are afterwards and
\* the exception raised, if any
MkdirP(ds, fs, path) == MkdirFrom(ds, fs, path, 1, FALSE)

\* the file a call's waveform is written to
FileOf(call) == [call EXCEPT !.path = Resolve(call.path)]

\* the engine has written a waveform at the call's path, replacing any
\* file of the same path
Render(fs, call) == {f \in fs : f.path # Resolve(call.path)} \cup {FileOf(call)}

\* the files on disk: the speaker file, the CSV file and the waveforms
FilePaths ==
    (IF speaker_exists THEN {Resolve(DEFAULT_SPEAKER_WAV)} ELSE {})
    \cup (IF csv.exists THEN {Resolve(DEFAULT_INPUT_CSV)} ELSE {})
    \cup {f.path : f \in files}

Line(tag, n, total, path) == [tag |-> tag, i |-> n, total |-> total, path |-> path]

LoadingLine == Line("loading", 0, 0, <<>>)
DoneLine    == Line("done", 0, 0, <<>>)

\* Python ends with status 1 and a traceback on an uncaught exception
Crash(kind) ==
    /\ pc' = "crashed"
    /\ err' = Append(err, kind)
    /\ exit_code' = 1

\* main printed the completion message and returned
Complete(progress) ==
    /\ pc' = "done"
    /\ out' = out \o <<progress, DoneLine>>
    /\ exit_code' = 0

inputVars == <<name, max_len, san_result, csv, load_result, variant,
               speaker_exists, outdir, language, langs_arg>>

\* main up to the dispatch on the variant: the speaker check, init_tts and
\* ensure_dir(args.outdir)
MainStart ==
    /\ pc = "start"
    /\ IF ~speaker_exists
       THEN /\ pc' = "exited"
            /\ err' = Append(err, "speaker wav not found")
            /\ exit_code' = 1
            /\ UNCHANGED <<out, tts_loads, dirs>>
       ELSE LET mk == MkdirP(dirs, FilePaths, outdir)
            IN  /\ out' = Append(out, LoadingLine)
                /\ tts_loads' = tts_loads + 1
                /\ dirs' = mk.dirs
                /\ IF mk.raises # "none" THEN Crash(mk.raises)
                   ELSE pc' = "dispatch" /\ UNCHANGED <<err, exit_code>>
    /\ UNCHANGED <<inputVars, languages, lines, i, j, calls, files, csv_loads>>

\* run_simple when the engine renders the sentence; the parent of its file
\* is the directory main made
SimpleJobOk ==
    /\ pc = "dispatch" /\ variant = "simple"
    /\ LET out_path == PathJoin(outdir, S_simple_wav)
           mk == MkdirP(dirs, FilePaths, Parent(out_path))
           call == EngineCall(SimpleSentence, out_path, language)
       IN  /\ mk.raises = "none"
           /\ ~IsDir(mk.dirs, Resolve(out_path))
           /\ dirs' = mk.dirs
           /\ calls' = Append(calls, call)
           /\ files' = Render(files, call)
           /\ Complete(Line("simple", 0, 0, out_path))
    /\ UNCHANGED <<inputVars, languages, lines, i, j, err, csv_loads, tts_loads>>

\* run_simple when the engine raises
SimpleJobFail ==
    /\ pc = "dispatch" /\ variant = "simple"
    /\ LET out_path == PathJoin(outdir, S_simple_wav)
           mk == MkdirP(dirs, FilePaths, Parent(out_path))
       IN  /\ mk.raises = "none"
           /\ dirs' = mk.dirs
           /\ calls' = Append(calls, EngineCall(SimpleSentence, out_path, language))
    /\ Crash("engine error")
    /\ UNCHANGED <<inputVars, languages, lines, i, j, files, out, csv_loads, tts_loads>>

\* load_csv_lines(csv_path) in a run, where the directories are ds: the path
\* of a directory exists, and open() raises IsADirectoryError on it
LoadCsvPath(ds) ==
    IF IsDir(ds, Resolve(DEFAULT_INPUT_CSV))
    THEN [kind |-> "IsADirectoryError", rows |-> <<>>]
    ELSE load_csv_lines(csv)

\* run_detailed up to its loop: load_csv_lines and ensure_dir(out_dir)
DetailedLoad ==
    /\ pc = "dispatch" /\ variant = "detailed"
    /\ csv_loads' = csv_loads + 1
    /\ LET r == LoadCsvPath(dirs)
           mk == MkdirP(dirs, FilePaths, outdir)
       IN  IF r.kind # "ok"
           THEN /\ Crash(r.kind)
                /\ UNCHANGED <<lines, i, dirs>>
           ELSE /\ lines' = r.rows
                /\ i' = 1
                /\ dirs' = mk.dirs
                /\ IF mk.raises # "none" THEN Crash(mk.raises)
                   ELSE pc' = "detailed_loop" /\ UNCHANGED <<err, exit_code>>
    /\ UNCHANGED <<inputVars, languages, j, calls, files, out, tts_loads>>

\* one iteration of the loop of run_detailed, the engine rendering the text;
\* the file name has no separator, so the parent of the file is out_dir
DetailedJobOk ==
    /\ pc = "detailed_loop" /\ i <= Len(lines)
    /\ LET out_path == PathJoin(outdir, detailed_fname(i, lines[i]))
           mk == MkdirP(dirs, FilePaths, Parent(out_path))
           call == EngineCall(lines[i].text, out_path, language)
           progress == Line("detailed", i, Len(lines), out_path)
       IN  /\ mk.raises = "none"
           /\ ~IsDir(mk.dirs, Resolve(out_path))
           /\ dirs' = mk.dirs
           /\ calls' = Append(calls, call)
           /\ files' = Render(files, call)
           /\ IF i = Len(lines)
              THEN Complete(progress)
              ELSE /\ out' = Append(out, progress)
                   /\ UNCHANGED <<pc, exit_code>>
    /\ i' = i + 1
    /\ UNCHANGED <<inputVars, languages, lines, j, err, csv_loads, tts_loads>>

\* an iteration that catches the engine's error and goes on to the next
\* record
DetailedJobFail_continue ==
    /\ pc = "detailed_loop" /\ i < Len(lines)
    /\ LET out_path == PathJoin(outdir, detailed_fname(i, lines[i]))
           mk == MkdirP(dirs, FilePaths, Parent(out_path))
       IN  /\ mk.raises = "none"
           /\ dirs' = mk.dirs
           /\ calls' = Append(calls, EngineCall(lines[i].text, out_path, language))
    /\ err' = Append(err, "engine error")
    /\ i' = i + 1
    /\ UNCHANGED <<inputVars, languages, lines, j, files, out, csv_loads, tts_loads,
                   pc, exit_code>>

\* one iteration of the loop of run_detailed, the engine raising
DetailedJobFail ==
    /\ pc = "detailed_loop" /\ i <= Len(lines)
    /\ LET out_path == PathJoin(outdir, detailed_fname(i, lines[i]))
           mk == MkdirP(dirs, FilePaths, Parent(out_path))
       IN  /\ mk.raises = "none"
           /\ dirs' = mk.dirs
           /\ calls' = Append(calls, EngineCall(lines[i].text, out_path, language))
    /\ Crash("engine error")
    /\ UNCHANGED <<inputVars, languages, lines, i, j, files, out, csv_loads, tts_loads>>

\* the advanced branch of main up to the loops of run_advanced: the parsing
\* of --langs and load_csv_lines
AdvancedLoad ==
    /\ pc = "dispatch" /\ variant = "advanced"
    /\ LET langs == ParseLangs(langs_arg)
       IN  IF langs = <<>>
           THEN /\ pc' = "exited"
                /\ err' = Append(err, "no languages provided")
                /\ exit_code' = 1
                /\ UNCHANGED <<languages, lines, i, j, csv_loads>>
           ELSE /\ languages' = langs
                /\ csv_loads' = csv_loads + 1
                /\ LET r == LoadCsvPath(dirs)
                   IN  IF r.kind # "ok"
                       THEN /\ Crash(r.kind)
                            /\ UNCHANGED <<lines, i, j>>
                       ELSE /\ lines' = r.rows
                            /\ i' = 1
                            /\ j' = 1
                            /\ pc' = "advanced_loop"
                            /\ UNCHANGED <<err, exit_code>>
    /\ UNCHANGED <<inputVars, calls, files, dirs, out, tts_loads>>

\* the two mkdir calls of a job of run_advanced: ensure_dir(subdir) and, if
\* it raised nothing, the one of synth_to_file
AdvancedMkdirs(subdir, out_path) ==
    LET first == MkdirP(dirs, FilePaths, subdir)
    IN  IF first.raises # "none" THEN first
        ELSE MkdirP(first.dirs, FilePaths, Parent(out_path))

\* one iteration of the inner loop of run_advanced, the engine rendering
AdvancedJobOk ==
    /\ pc = "advanced_loop" /\ i <= Len(lines) /\ j <= Len(languages)
    /\ LET lang == languages[j]
           subdir == PathJoin(outdir, lang)
           out_path == PathJoin(subdir, advanced_fname(i, lines[i], lang))
           mk == AdvancedMkdirs(subdir, out_path)
           call == EngineCall(lines[i].text, out_path, lang)
           progress == Line("advanced", i, Len(lines), out_path)
       IN  /\ mk.raises = "none"
           /\ ~IsDir(mk.dirs, Resolve(out_path))
           /\ dirs' = mk.dirs
           /\ calls' = Append(calls, call)
           /\ files' = Render(files, call)
           /\ IF i = Len(lines) /\ j = Len(languages)
              THEN Complete(progress)
              ELSE /\ out' = Append(out, progress)
                   /\ UNCHANGED <<pc, exit_code>>
    /\ IF j = Len(languages) THEN i' = i + 1 /\ j' = 1 ELSE i' = i /\ j' = j + 1
    /\ UNCHANGED <<inputVars, languages, lines, err, csv_loads, tts_loads>>

\* one iteration of the inner loop of run_advanced, the engine raising
AdvancedJobFail ==
    /\ pc = "advanced_loop" /\ i <= Len(lines) /\ j <= Len(languages)
    /\ LET lang == languages[j]
           subdir == PathJoin(outdir, lang)
           out_path == PathJoin(subdir, advanced_fname(i, lines[i], lang))
           mk == AdvancedMkdirs(subdir, out_path)
       IN  /\ mk.raises = "none"
           /\ dirs' = mk.dirs
           /\ calls' = Append(calls, EngineCall(lines[i].text, out_path, lang))
    /\ Crash("engine error")
    /\ UNCHANGED <<inputVars, languages, lines, i, j, files, out, csv_loads, tts_loads>>

\* one iteration of the inner loop of run_advanced, a mkdir raising: the
\* language leads the directory of the job onto a file
AdvancedMkdirFail ==
    /\ pc = "advanced_loop" /\ i <= Len(lines) /\ j <= Len(languages)
    /\ LET lang == languages[j]
           subdir == PathJoin(outdir, lang)
           out_path == PathJoin(subdir, advanced_fname(i, lines[i], lang))
           mk == AdvancedMkdirs(subdir, out_path)
       IN  /\ mk.raises # "none"
           /\ dirs' = mk.dirs
           /\ Crash(mk.raises)
    /\ UNCHANGED <<inputVars, languages, lines, i, j, calls, files, out, csv_loads,
                   tts_loads>>

----------------------------------------------------------------------------
(* Bounds and input domains *)

MaxNameLen == 4     \* longest short argument of sanitize_filename
MaxCols    == 2     \* widest header when the header is varied
MaxRows    == 3     \* most data lines when the data lines are varied
MaxRunRows == 2     \* most data lines of a run's input file
MaxLangs   == 2     \* most comma-separated items of --langs

\* characters of the short sanitizer arguments: safe, whitespace, unsafe
SanAlphabet == {"a", "Z", "-", " ", EM_SPACE, "#"}

\* arguments longer than the default max_len
LongNames ==
    {pre \o Rep("a", n) : pre \in {<<>>, <<"#">>, <<" ", "_">>},
                             n \in (DefaultMaxLen - 1)..(DefaultMaxLen + 2)}

SanNames == SeqsUpTo(SanAlphabet, MaxNameLen) \cup LongNames

SanMaxLens == (0..MaxNameLen) \cup {DefaultMaxLen}

\* cell values: empty, whitespace only, and two texts, one of them with
\* surrounding whitespace
Cells == {<<>>, <<VT, EM_SPACE>>, <<NBSP, "b", "\t">>, <<"c">>}

\* cell values under a header name that reads id when the data lines are
\* varied: empty, or a value with surrounding whitespace
IdCells == {<<>>, <<NBSP, "b", "\t">>}

\* "TEXT" in Greek capitals, whose lowercase is not "text"
S_greek == <<"U+03A4", "U+0395", "U+03A7", "U+03A4">>

\* header names when the header is varied
HdrNames == {S_id, S_text, S_Text, S_sentence, S_utterance, S_message, S_foo, S_greek}

\* header names when the data lines are varied
RowNames == {S_id, S_Id, S_Text}

\* f is a file with a header line over names, at most cols columns and
\* at most n data lines; a line of no cells is a blank line
IsCsvFile(f, names, cols, n) ==
    \E h \in SeqsUpTo(names, cols), data \in SeqsUpTo(SeqsUpTo(Cells, cols), n) :
        f = [exists |-> TRUE, rows |-> <<h>> \o data]

\* the cell values at position p of a data line below the header h when the
\* data lines are varied: a cell the reader does not keep, because it is
\* surplus or because a later column has the same name, is always "c"
RowCellsAt(h, p) ==
    IF p > Len(h) \/ (\E q \in (p + 1)..Len(h) : h[q] = h[p]) THEN {<<"c">>}
    ELSE IF Lower(h[p]) = S_id THEN IdCells
    ELSE Cells

\* f is a file with a header line over RowNames and at most n data lines, of
\* at most two cells each
IsRowsFile(f, n) ==
    \E h \in SeqsUpTo(RowNames, 2) :
        \E data \in SeqsUpTo({line \in SeqsUpTo(Cells, 2) :
                                 \A p \in 1..Len(line) : line[p] \in RowCellsAt(h, p)}, n) :
            f = [exists |-> TRUE, rows |-> <<h>> \o data]

MissingFile == [exists |-> FALSE, rows |-> <<>>]
EmptyFile   == [exists |-> TRUE, rows |-> <<>>]

NoResult == [kind |-> "none", rows |-> <<>>]

\* the variables a specification does not use
IdleSan == name = <<>> /\ max_len = 0 /\ san_result = <<>>
IdleCsv == csv = MissingFile /\ load_result = NoResult
IdleRun ==
    /\ variant = "none" /\ speaker_exists = FALSE /\ outdir = <<>> /\ language = <<>>
    /\ langs_arg = <<>> /\ languages = <<>> /\ lines = <<>> /\ i = 0 /\ j = 0
    /\ calls = <<>> /\ files = {} /\ dirs = {} /\ out = <<>> /\ err = <<>>
    /\ exit_code = -1 /\ csv_loads = 0 /\ tts_loads = 0

runVars == <<variant, speaker_exists, outdir, language, langs_arg, languages, lines, i, j, calls,
             files, dirs, out, err, exit_code, csv_loads, tts_loads>>

----------------------------------------------------------------------------
(* sanitize_filename applied to one argument pair *)

InitSan ==
    /\ pc = "san_call"
    /\ name \in SanNames
    /\ max_len \in SanMaxLens
    /\ san_result = <<>>
    /\ IdleCsv /\ IdleRun

Sanitize ==
    /\ pc = "san_call"
    /\ san_result' = sanitize_filename(name, max_len)
    /\ pc' = "san_done"
    /\ UNCHANGED <<name, max_len, csv, load_result, runVars>>

NextSan == Sanitize

SpecSan == InitSan /\ [][NextSan]_vars

----------------------------------------------------------------------------
(* load_csv_lines applied to one file *)

Load ==
    /\ pc = "load_call"
    /\ load_result' = load_csv_lines(csv)
    /\ pc' = "load_done"
    /\ UNCHANGED <<name, max_len, san_result, csv, runVars>>

InitHdr ==
    /\ pc = "load_call"
    /\ IsCsvFile(csv, HdrNames, MaxCols, 1)
    /\ load_result = NoResult
    /\ IdleSan /\ IdleRun

NextHdr == Load

\* wide headers, one data line
SpecHdr == InitHdr /\ [][NextHdr]_vars

InitRows ==
    /\ pc = "load_call"
    /\ \/ IsRowsFile(csv, MaxRows)
       \/ csv \in {MissingFile, EmptyFile}
    /\ load_result = NoResult
    /\ IdleSan /\ IdleRun

NextRows == Load

\* headers of at most two names, several data lines
SpecRows == InitRows /\ [][NextRows]_vars

----------------------------------------------------------------------------
(* One run of main.  The lines of the CSV file are varied in the runs that  *)
(* get to read it.                                                         *)

T_hello == <<"H", "e", "l", "l", "o", " ", "w", "o", "r", "l", "d", " ",
             "t", "h", "i", "s", " ", "i", "s", " ", "a", " ",
             "t", "e", "s", "t", " ", "s", "e", "n", "t", "e", "n", "c", "e">>

\* id cells of a run's file: empty, and one with an unsafe character
RunIds == {<<>>, <<"7", "/">>}

\* text cells of a run's file: whitespace, one word without a safe
\* character, seven words
RunTexts == {<<LINE_SEP, US>>, <<"#", "!">>, T_hello}

\* the items between the commas of --langs: whitespace, a code, a code
\* after whitespace that has path separators and "..", a code that leads
\* to the speaker file
LangItems ==
    {<<" ", IDEOGRAPHIC>>, S_en,
     <<OGHAM, "a", "/", "c", "/", ".", ".", "/", "b">>,
     <<".", ".", "/">> \o S_sample_voice_wav}

\* the values of --outdir: the default, the path of the speaker file and the
\* path of the input CSV
OutDirs == {DEFAULT_OUTPUT_DIR, DEFAULT_SPEAKER_WAV, DEFAULT_INPUT_CSV}

InitRun ==
    /\ pc = "start"
    /\ IdleSan
    /\ load_result = NoResult
    /\ speaker_exists \in BOOLEAN
    /\ outdir \in OutDirs
    /\ variant \in {"simple", "detailed", "advanced"}
    /\ language \in IF variant = "advanced" THEN {DEFAULT_LANGUAGE}
                    ELSE {DEFAULT_LANGUAGE, <<>>}
    /\ IF variant = "simple" THEN csv = MissingFile
       ELSE \/ csv \in {MissingFile, EmptyFile}
            \/ /\ speaker_exists /\ outdir = DEFAULT_OUTPUT_DIR
               /\ \E data \in SeqsUpTo(RunIds \X RunTexts, MaxRunRows) :
                     csv = [exists |-> TRUE, rows |-> <<<<S_id, S_text>>>> \o data]
    /\ IF variant = "advanced"
       THEN \E items \in SeqsUpTo(LangItems, MaxLangs) : langs_arg = Join(items, <<",">>)
       ELSE langs_arg = DEFAULT_ADVANCED_LANGS
    /\ languages = <<>> /\ lines = <<>> /\ i = 0 /\ j = 0
    /\ calls = <<>> /\ files = {} /\ dirs = {} /\ out = <<>> /\ err = <<>>
    /\ exit_code = -1 /\ csv_loads = 0 /\ tts_loads = 0

Next ==
    \/ MainStart
    \/ SimpleJobOk
    \/ SimpleJobFail
    \/ DetailedLoad
    \/ DetailedJobOk
    \/ DetailedJobFail
    \/ AdvancedLoad
    \/ AdvancedJobOk
    \/ AdvancedJobFail
    \/ AdvancedMkdirFail

Spec == InitRun /\ [][Next]_vars

----------------------------------------------------------------------------
(* Properties of sanitize_filename *)

\* C5: with the default maximum length the result is at most 100 characters
\* long and made of characters of [A-Za-z0-9._-] only, or it is "utt".
ThmC5_SafeAndShort ==
    (pc = "san_done" /\ max_len = DefaultMaxLen) =>
        \/ /\ Len(san_result) <= 100
           /\ \A k \in 1..Len(san_result) : san_result[k] \in SafeChars
        \/ san_result = S_utt

\* the truncation and the removal of unsafe characters both acted
WitC5_Truncated ==
    /\ pc = "san_done" /\ max_len = DefaultMaxLen
    /\ Len(name) > 100 /\ Len(san_result) = 100
    /\ \E k \in 1..Len(name) : name[k] \notin SafeChars

\* the steps in the order the claim gives them: the fallback follows the
\* truncation
ClaimedSanitize(n, m) ==
    LET cut == Slice(StripUnsafe(CollapseWs(Strip(n))), m)
    IN  IF cut = <<>> THEN S_utt ELSE cut

\* C6: the result is that of trim, collapse, strip, truncate and then the
\* fallback "utt" for an empty truncated result, so it is never empty.
CexC6_FallbackAfterTruncation ==
    pc = "san_done" => (san_result = ClaimedSanitize(name, max_len) /\ san_result # <<>>)

----------------------------------------------------------------------------
(* Properties of load_csv_lines *)

\* the name of the text column as the claims describe its choice
ClaimTextName(h) ==
    LET Has(c) == \E p \in 1..Len(h) : Lower(h[p]) = c
        First(c) == h[CHOOSE p \in 1..Len(h) :
                        Lower(h[p]) = c /\ \A q \in 1..(p - 1) : Lower(h[q]) # c]
    IN  IF Has(S_text) THEN First(S_text)
        ELSE IF Has(S_sentence) THEN First(S_sentence)
        ELSE IF Has(S_utterance) THEN First(S_utterance)
        ELSE IF Has(S_message) THEN First(S_message)
        ELSE h[1]

\* the value a data line has in the column called nm: the cell under the
\* last header entry of that name, None when the line is too short or the
\* header has no such name
ClaimCell(h, row, nm) ==
    LET at == {p \in 1..Len(h) : h[p] = nm}
    IN  IF at = {} THEN NoneVal
        ELSE LET p == CHOOSE q \in at : \A m \in at : m <= q
             IN  IF p <= Len(row) THEN row[p] ELSE NoneVal

\* the trimmed texts of the data lines, in file order
ClaimTexts(f) ==
    LET h    == Head(f.rows)
        data == DataRows(f.rows)
        nm   == ClaimTextName(h)
    IN  [k \in 1..Len(data) |->
            LET v == ClaimCell(h, data[k], nm)
            IN  IF v = NoneVal THEN <<>> ELSE Strip(v)]

\* the positions of the non-empty entries of texts
Kept(texts) == {k \in 1..Len(texts) : texts[k] # <<>>}

HasHeader(f) == f.exists /\ f.rows # <<>> /\ Head(f.rows) # <<>>

Loaded == pc = "load_done" /\ load_result.kind = "ok"

\* C1: a returned list is not empty, holds one record for each data line
\* whose trimmed text is not empty and for no other line, in file order, and
\* each record's text is that trimmed, non-empty value.
ThmC1_RecordsAreTextRows ==
    Loaded =>
        LET texts == ClaimTexts(csv)
            kept  == Kept(texts)
        IN  /\ load_result.rows # <<>>
            /\ Len(load_result.rows) = Cardinality(kept)
            /\ \A n \in 1..Len(load_result.rows) :
                  /\ load_result.rows[n].text # <<>>
                  /\ load_result.rows[n].text = texts[Nth(kept, n)]

\* a whitespace-only line was dropped between two kept lines of different
\* texts, which came back in the order of the file
WitC1_DroppedBetween ==
    /\ Loaded
    /\ Len(load_result.rows) = 2
    /\ Kept(ClaimTexts(csv)) = {1, 3}
    /\ DataRows(csv.rows)[2] = <<<<VT, EM_SPACE>>>>
    /\ ClaimTexts(csv)[1] = <<"c">>
    /\ ClaimTexts(csv)[3] = <<"b">>
    /\ load_result.rows[1].text = <<"c">>
    /\ load_result.rows[2].text = <<"b">>

\* the columns the claims call the text column of the header h: those whose
\* name reads, without case, as the first of the candidates that the header
\* has, else the first column
ClaimTextColumns(h) ==
    LET At(c) == {p \in 1..Len(h) : Lower(h[p]) = c}
    IN  IF At(S_text) # {} THEN At(S_text)
        ELSE IF At(S_sentence) # {} THEN At(S_sentence)
        ELSE IF At(S_utterance) # {} THEN At(S_utterance)
        ELSE IF At(S_message) # {} THEN At(S_message)
        ELSE {1}

\* the trimmed cells of column p of the data lines, in file order; a line
\* too short for the column has none
ColumnTexts(f, p) ==
    LET data == DataRows(f.rows)
    IN  [k \in 1..Len(data) |-> IF p <= Len(data[k]) THEN Strip(data[k][p]) ELSE <<>>]

\* C2: the text comes from the column of the first of text, sentence,
\* utterance, message that the header has, compared without case and wherever
\* it stands, else from the first column in header order.
CexC2_ColumnChoice ==
    (pc = "load_done" /\ HasHeader(csv)) =>
        \E p \in ClaimTextColumns(Head(csv.rows)) :
            LET NonEmpty(t) == t # <<>>
                want == SelectSeq(ColumnTexts(csv, p), NonEmpty)
                got == [n \in 1..Len(load_result.rows) |-> load_result.rows[n].text]
            IN  /\ got = want
                /\ load_result.kind = IF want = <<>> THEN "ValueError" ELSE "ok"

\* C3: a record's id is the value of the line's id column when the header
\* has one and the value is not empty, else the decimal position of the
\* line among the data lines.
ThmC3_RecordId ==
    Loaded =>
        LET kept == Kept(ClaimTexts(csv))
            h    == Head(csv.rows)
            data == DataRows(csv.rows)
        IN  \A n \in 1..Len(load_result.rows) :
                LET k == Nth(kept, n)
                    v == ClaimCell(h, data[k], S_id)
                IN  load_result.rows[n].id =
                        IF v # NoneVal /\ v # <<>> THEN v ELSE IntToStr(k)

\* a record after a dropped line keeps the position of its line as id
WitC3_NotRenumbered ==
    /\ Loaded
    /\ LET kept == Kept(ClaimTexts(csv))
       IN  \E n \in 1..Len(load_result.rows) :
              /\ Nth(kept, n) > n
              /\ load_result.rows[n].id = IntToStr(Nth(kept, n))

\* C4: a missing path fails with FileNotFoundError, a file without header
\* line or without any line of text fails with ValueError, no list is
\* returned then, and every other file is loaded.
ThmC4_Failures ==
    pc = "load_done" =>
        /\ load_result.kind =
              IF ~csv.exists THEN "FileNotFoundError"
              ELSE IF ~HasHeader(csv) THEN "ValueError"
              ELSE IF Kept(ClaimTexts(csv)) = {} THEN "ValueError"
              ELSE "ok"
        /\ load_result.kind # "ok" => load_result.rows = <<>>
        /\ load_result.kind = "ok" => load_result.rows # <<>>

\* a file with a header and data lines, none of which has text, was refused
WitC4_NoTextRefused ==
    /\ pc = "load_done" /\ HasHeader(csv)
    /\ Len(DataRows(csv.rows)) >= 2
    /\ load_result.kind = "ValueError"

----------------------------------------------------------------------------
(* Properties of the runners and of main *)

\* the slug of a text as the claims describe it: the safe characters of the
\* first six words joined by underscores, cut to the default length
ClaimedSlug(text) ==
    Slice(StripUnsafe(CollapseWs(Strip(Join(Slice(Words(text), 6), <<" ">>)))), 100)

\* the file name the claim gives the n-th record of a detailed run
ClaimedDetailedName(n, row) ==
    LET rid == sanitize_filename(row.id, 100)
    IN  IF ClaimedSlug(row.text) = <<>> THEN Fmt03(n) \o <<"_">> \o rid \o S_wav
        ELSE Fmt03(n) \o <<"_">> \o rid \o <<"_">> \o ClaimedSlug(row.text) \o S_wav

\* C7: the detailed runner renders the n-th record to outdir/NNN_id_slug.wav,
\* and to outdir/NNN_id.wav when the first six words have no safe character.
CexC7_DetailedNames ==
    variant = "detailed" =>
        \A n \in 1..Len(calls) :
            calls[n].path = outdir \o <<ClaimedDetailedName(n, lines[n])>>

\* C8: an advanced run without engine failure makes one engine call for each
\* record and language, record by record and language by language, each to
\* the file NNN_id_slug-or-utt.lang.wav directly under outdir/lang, after
\* loading the file once.
CexC8_AdvancedJobs ==
    (pc = "done" /\ variant = "advanced") =>
        LET R == Len(lines)
            L == Len(languages)
        IN  /\ lines = load_csv_lines(csv).rows
            /\ csv_loads = 1
            /\ Len(calls) = R * L
            /\ \A r \in 1..R : \A l \in 1..L :
                  LET c    == calls[(r - 1) * L + l]
                      lang == languages[l]
                      slug == ClaimedSlug(lines[r].text)
                  IN  /\ c.text = lines[r].text
                      /\ c.language = lang
                      /\ c.path = outdir \o <<lang, c.path[Len(c.path)]>>
                      /\ c.path[Len(c.path)] = Fmt03(r) \o <<"_">> \o sanitize_filename(lines[r].id, 100)
                                     \o <<"_">> \o (IF slug = <<>> THEN S_utt ELSE slug)
                                     \o <<".">> \o lang \o S_wav

\* --langs has nothing but commas and whitespace
NoLanguage(s) == \A k \in 1..Len(s) : s[k] \in Whitespace \cup {","}

\* C9: without the speaker file, or with an empty language list in the
\* advanced variant, the run ends with status 1 and an error message, calls
\* the engine at no point and never prints the completion message.
ThmC9_RefusedRuns ==
    (~speaker_exists \/ (variant = "advanced" /\ NoLanguage(langs_arg))) =>
        /\ calls = <<>>
        /\ files = {}
        /\ DoneLine \notin Range(out)
        /\ pc \in {"start", "dispatch", "exited", "crashed"}
        /\ pc \in {"dispatch", "crashed"} => speaker_exists
        /\ pc \in {"exited", "crashed"} => (exit_code = 1 /\ Len(err) = 1)

\* an advanced run with the speaker file was refused for a --langs of
\* commas and blanks
WitC9_EmptyLangs ==
    /\ pc = "exited" /\ speaker_exists /\ variant = "advanced"
    /\ Len(langs_arg) >= 2
    /\ exit_code = 1

EngineRaised == "engine error" \in Range(err)

\* the files that the calls cs leave when each succeeds
FilesOf(cs) ==
    {FileOf(cs[n]) : n \in {m \in 1..Len(cs) :
                                \A q \in (m + 1)..Len(cs) :
                                    Resolve(cs[q].path) # Resolve(cs[m].path)}}

\* C10: when the engine raises on the k-th job the run is over: the files
\* of the jobs before it stay as they are, the k-th job has no progress line,
\* the completion message is not printed and no further job is attempted.
ThmC10_EngineErrorIsFatal ==
    /\ [](EngineRaised =>
            LET k == Len(calls)
            IN  /\ k >= 1
                /\ pc = "crashed" /\ exit_code = 1
                /\ files = FilesOf(SubSeq(calls, 1, k - 1))
                /\ Len(out) = k
                /\ \A n \in 1..(k - 1) : out[n + 1].path = calls[n].path
                /\ DoneLine \notin Range(out))
    /\ [][EngineRaised => (calls' = calls /\ files' = files /\ out' = out)]_vars

\* the engine raised on a later job of a run and earlier files are on disk
WitC10_LaterJobFailed ==
    /\ EngineRaised
    /\ Len(calls) >= 3
    /\ Cardinality(files) = Len(calls) - 1

====
